---- MODULE Spec2Model ----
(***************************************************************************)
(* Model of monetary_econ/generate_visualization.py: one run of main(),    *)
(* i.e. fetch_ecb_rates (six sequential requests, DataFrame construction,  *)
(* MRO merge) followed by create_interactive_plot (traces, summary block,  *)
(* makedirs, file write) and the exit code.                                *)
(*                                                                         *)
(* Representation.  A date is a day ordinal 1..MaxDate (pd.to_datetime is  *)
(* order preserving, so the ordinal stands for the Timestamp).  A rate is  *)
(* an integer number of eighths of a percentage point (36 = 4.50%,         *)
(* 38 = 4.75%, 37 = 4.625%); source rates are even, so that the mean of    *)
(* two of them is again a whole number of eighths, exactly as the float    *)
(* mean is exact on such values.  A cell of a Series or DataFrame is a     *)
(* tuple: <<v>> for the value v and << >> for NaN.  A path is the tuple    *)
(* of its components.                                                      *)
(***************************************************************************)
EXTENDS Integers, Sequences, FiniteSets, TLC

\* ------------------------------------------------------------------ bounds
MaxDate == 2
MaxObs == 2

Dates == 1..MaxDate
Rates == {36, 38}

\* ------------------------------------------------------------- constants
\* SERIES_KEYS in insertion order (the order dict.items() iterates in).
\* "ESTR" stands for the key written with the euro sign in the source.
SERIES_KEYS ==
    << "MRO (Fixed Rate)", "MRO (Variable Rate)", "DFR", "MLF", "EONIA", "ESTR" >>

RateNames == { SERIES_KEYS[k] : k \in 1..Len(SERIES_KEYS) }

policy_rates == << "MRO", "DFR", "MLF" >>

reference_rates == << "ESTR", "EONIA" >>

\* The two kinds of value of --output: a path with a directory
\* component and a bare file name.
OutputPaths == { << "out", "ecb_rates.html" >>, << "ecb_rates.html" >> }

\* ------------------------------------------------------------------ cells
NaN == << >>

Cells == { NaN } \cup { << v >> : v \in Rates }

notna(c) == c # NaN

\* ------------------------------------------------------------ small helpers
Range(s) == { s[k] : k \in 1..Len(s) }

RECURSIVE SumOver(_, _)
SumOver(f, S) ==
    IF S = {} THEN 0
    ELSE LET x == CHOOSE y \in S : TRUE IN f[x] + SumOver(f, S \ {x})

\* The elements of a finite set of integers in increasing order.
RECURSIVE SortedSeq(_)
SortedSeq(S) ==
    IF S = {} THEN << >>
    ELSE LET m == CHOOSE x \in S : \A y \in S : x <= y
         IN << m >> \o SortedSeq(S \ {m})

RECURSIVE SelectNames(_, _)
SelectNames(names, S) ==
    IF names = << >> THEN << >>
    ELSE (IF Head(names) \in S THEN << Head(names) >> ELSE << >>)
         \o SelectNames(Tail(names), S)

\* A Series with at most n observations: a function from its dates (the
\* index) to cells.
SeriesUpTo(n) ==
    UNION { [D -> Cells] : D \in { E \in SUBSET Dates : Cardinality(E) <= n } }

\* What ecbdata.get_series can do for one key: raise, or return a frame whose
\* dates are in a TIME_PERIOD column or in the index, with or without an
\* OBS_VALUE column.  n bounds the observations of the frame.
Responses(n) ==
    { [kind |-> c, obs |-> << >>] : c \in {"raise", "no OBS_VALUE"} }
    \cup { [kind |-> c, obs |-> s] : c \in {"TIME_PERIOD", "index"}, s \in SeriesUpTo(n) }

\* ---------------------------------------------------------- fetch_ecb_rates
\* The body of the try block completes (a column is stored) exactly when
\* get_series returned and df['OBS_VALUE'] exists; anything else is caught
\* by `except Exception` and only printed.
TryCompletes(resp) == resp.kind \in {"TIME_PERIOD", "index"}

\* rates_data[rate_name] = df['OBS_VALUE']
StoreSeries(rd, name, s) ==
    [n \in (DOMAIN rd) \cup {name} |-> IF n = name THEN s ELSE rd[n]]

\* Variant: the loop is left at the first failure.
NextKeyStopOnError(k, completed) ==
    IF completed THEN k + 1 ELSE Len(SERIES_KEYS) + 1

\* The loop goes on to the next key whether or not the try block completed.
NextKey(k, completed) == k + 1

\* Missing cells of the outer join.
FillValue == NaN

\* Variant: an inner join, the dates common to all the series.
JoinIndexInner(rd) ==
    SortedSeq({ d \in Dates : \A n \in DOMAIN rd : d \in DOMAIN rd[n] })

\* Index of pd.DataFrame(dict of Series): the sorted union of the indexes.
JoinIndex(rd) == SortedSeq(UNION { DOMAIN rd[n] : n \in DOMAIN rd })

\* pd.DataFrame(rates_data): one column per key in insertion order, rows
\* aligned on the joined index.
DataFrame(rd) ==
    LET idx == JoinIndex(rd)
    IN [ columns |-> SelectNames(SERIES_KEYS, DOMAIN rd),
         index   |-> idx,
         data    |-> [n \in DOMAIN rd |->
                        [d \in Range(idx) |->
                            IF d \in DOMAIN rd[n] THEN rd[n][d] ELSE FillValue]] ]

\* Variant: skipna=False, a row with a NaN has mean NaN.
RowMeanNoSkip(cells) ==
    IF \E j \in 1..Len(cells) : cells[j] = NaN THEN NaN
    ELSE << SumOver([j \in 1..Len(cells) |-> cells[j][1]], 1..Len(cells))
            \div Len(cells) >>

\* DataFrame.mean(axis=1) on one row (skipna=True): the mean of the cells
\* that are not NaN, NaN when there is none.
RowMean(cells) ==
    LET present == { k \in 1..Len(cells) : notna(cells[k]) }
        vals    == [k \in present |-> cells[k][1]]
    IN IF present = {} THEN NaN
       ELSE << SumOver(vals, present) \div Cardinality(present) >>

\* The condition of the merge: both sub-series are columns.
BothMRO(df) ==
    /\ "MRO (Fixed Rate)" \in Range(df.columns)
    /\ "MRO (Variable Rate)" \in Range(df.columns)

\* Variant: the drop is left out.
DropNothing(df, names) == df

\* combined_rates.drop(columns=names)
DropColumns(df, names) ==
    [ columns |-> SelectSeq(df.columns, LAMBDA c : c \notin names),
      index   |-> df.index,
      data    |-> [n \in (DOMAIN df.data) \ names |-> df.data[n]] ]

\* combined_rates['MRO'] = combined_rates[[fixed, variable]].mean(axis=1)
AddMRO(df) ==
    [ columns |-> Append(df.columns, "MRO"),
      index   |-> df.index,
      data    |-> [n \in (DOMAIN df.data) \cup {"MRO"} |->
                     IF n = "MRO"
                     THEN [d \in Range(df.index) |->
                             RowMean(<< df.data["MRO (Fixed Rate)"][d],
                                        df.data["MRO (Variable Rate)"][d] >>)]
                     ELSE df.data[n]] ]

\* Variant: a single available sub-series is passed through as "MRO".
MergeMROPassThrough(df) ==
    LET subs == SelectNames(<< "MRO (Fixed Rate)", "MRO (Variable Rate)" >>,
                            Range(df.columns))
    IN IF subs = << >> THEN df
       ELSE [ columns |-> Append(SelectSeq(df.columns, LAMBDA c : c \notin Range(subs)),
                                 "MRO"),
              index   |-> df.index,
              data    |-> [n \in ((DOMAIN df.data) \ Range(subs)) \cup {"MRO"} |->
                             IF n = "MRO"
                             THEN [d \in Range(df.index) |->
                                     RowMean([j \in 1..Len(subs) |-> df.data[subs[j]][d]])]
                             ELSE df.data[n]] ]

MergeMRO(df) ==
    IF BothMRO(df)
    THEN DropColumns(AddMRO(df), {"MRO (Fixed Rate)", "MRO (Variable Rate)"})
    ELSE df

\* ---------------------------------------------------- create_interactive_plot
\* The traces added to the figure, in order: policy rates, then reference
\* rates, each only if it is a column.
Traces(df) ==
    SelectNames(policy_rates, Range(df.columns))
    \o SelectNames(reference_rates, Range(df.columns))

\* rates_df.iloc[-1] raises IndexError on a frame without rows.
HasRows(df) == Len(df.index) > 0

\* rates_df.iloc[-1]: the last row, as a Series indexed by column name.
LatestRates(df) ==
    [n \in DOMAIN df.data |-> df.data[n][df.index[Len(df.index)]]]

\* rates_df[name].dropna(), as the dates that remain, in order.
DropNa(df, name) ==
    SelectSeq(df.index, LAMBDA d : notna(df.data[name][d]))

\* f"{value:.3f}": eighths of a point have at most three decimals, so the
\* formatted number is the value in thousandths, exactly.
Fmt3(v) == v * 125

\* The <li> of one policy rate: present when the rate is a column and its
\* cell in the last row is not NaN.
PolicyItem(df, name) ==
    IF name \in DOMAIN LatestRates(df) /\ notna(LatestRates(df)[name])
    THEN << [name |-> name, value |-> Fmt3(LatestRates(df)[name][1]), asof |-> NaN] >>
    ELSE << >>

\* The <li> of one reference rate: its last non-NaN observation and the date
\* of that observation.
ReferenceItem(df, name) ==
    IF name \in Range(df.columns) /\ DropNa(df, name) # << >>
    THEN LET ds == DropNa(df, name)
             d  == ds[Len(ds)]
         IN << [name |-> name, value |-> Fmt3(df.data[name][d][1]), asof |-> << d >>] >>
    ELSE << >>

\* The items of the "Latest Available Rates" list, in order.
RatesInfo(df) ==
    PolicyItem(df, "MRO") \o PolicyItem(df, "DFR") \o PolicyItem(df, "MLF")
    \o ReferenceItem(df, "ESTR") \o ReferenceItem(df, "EONIA")

\* os.path.dirname
Dirname(path) == SubSeq(path, 1, Len(path) - 1)

\* The directories os.makedirs(d) makes sure exist: d and its ancestors.
DirsOf(d) == { SubSeq(d, 1, k) : k \in 1..Len(d) }

\* ----------------------------------------------------------------- main
\* Variant: the except branch also returns 0.
ExitCodeZero(err) == 0

\* The value main returns: 1 from the except branch, 0 otherwise.
ExitCode(err) == IF err # "none" THEN 1 ELSE 0

\* ------------------------------------------------------------------ state
VARIABLES
    pc,              \* position in main: fetch, combine, merge, plot, makedirs,
                     \* write, return, done
    output_path,     \* the parameter output_path of create_interactive_plot
                     \* (main passes args.output), << >> before the call
    dirs,            \* the directories that exist in the file system
    k,               \* position of the loop over SERIES_KEYS
    requests,        \* number of get_series calls made for each rate name
    failed,          \* rate names for which "Error fetching" was printed
    rates_data,      \* the dict rates_data
    combined_rates,  \* the DataFrame combined_rates / rates_df
    traces,          \* names of the traces added to fig
    rates_info,      \* items of the summary list
    artifact,        \* << >>, or the one-element tuple of the file's content
    writes,          \* number of times the output file was written
    returned,        \* << >>, or << path >> returned by create_interactive_plot
    error,           \* the exception that reached main's except, or "none"
    exit_code        \* << >>, or << code >> returned by main

vars == << pc, output_path, dirs, k, requests, failed, rates_data, combined_rates,
           traces, rates_info, artifact, writes, returned, error, exit_code >>

EmptyFrame == [columns |-> << >>, index |-> << >>, data |-> << >>]

\* Observations held in rates_data (bounded by MaxObs).
ObsCount(rd) ==
    SumOver([n \in DOMAIN rd |-> Cardinality(DOMAIN rd[n])], DOMAIN rd)

Init ==
    /\ pc = "fetch"
    /\ output_path = << >>
    /\ dirs = {}
    /\ k = 1
    /\ requests = [n \in RateNames |-> 0]
    /\ failed = {}
    /\ rates_data = << >>
    /\ combined_rates = EmptyFrame
    /\ traces = << >>
    /\ rates_info = << >>
    /\ artifact = << >>
    /\ writes = 0
    /\ returned = << >>
    /\ error = "none"
    /\ exit_code = << >>

\* Variant: no try/except around the request, a failure propagates to main.
FetchSeriesRaising ==
    /\ pc = "fetch"
    /\ k <= Len(SERIES_KEYS)
    /\ \E resp \in Responses(MaxObs - ObsCount(rates_data)) :
         LET name == SERIES_KEYS[k]
         IN /\ requests' = [requests EXCEPT ![name] = @ + 1]
            /\ rates_data' = IF TryCompletes(resp)
                             THEN StoreSeries(rates_data, name, resp.obs)
                             ELSE rates_data
            /\ failed' = IF TryCompletes(resp) THEN failed ELSE failed \cup {name}
            /\ k' = k + 1
            /\ error' = IF TryCompletes(resp) THEN error ELSE "Exception"
            /\ pc' = IF ~ TryCompletes(resp) THEN "return"
                     ELSE IF k' > Len(SERIES_KEYS) THEN "combine" ELSE "fetch"
    /\ UNCHANGED << output_path, dirs, combined_rates, traces, rates_info,
                    artifact, writes, returned, exit_code >>

\* One iteration of the loop of fetch_ecb_rates: the request, and either the
\* stored column or the printed error.
FetchSeries ==
    /\ pc = "fetch"
    /\ k <= Len(SERIES_KEYS)
    /\ \E resp \in Responses(MaxObs - ObsCount(rates_data)) :
         LET name == SERIES_KEYS[k]
         IN /\ requests' = [requests EXCEPT ![name] = @ + 1]
            /\ rates_data' = IF TryCompletes(resp)
                             THEN StoreSeries(rates_data, name, resp.obs)
                             ELSE rates_data
            /\ failed' = IF TryCompletes(resp) THEN failed ELSE failed \cup {name}
            /\ k' = NextKey(k, TryCompletes(resp))
    /\ pc' = IF k' > Len(SERIES_KEYS) THEN "combine" ELSE "fetch"
    /\ UNCHANGED << output_path, dirs, combined_rates, traces, rates_info,
                    artifact, writes, returned, error, exit_code >>

\* combined_rates = pd.DataFrame(rates_data)
Combine ==
    /\ pc = "combine"
    /\ combined_rates' = DataFrame(rates_data)
    /\ pc' = "merge"
    /\ UNCHANGED << output_path, dirs, k, requests, failed, rates_data, traces,
                    rates_info, artifact, writes, returned, error, exit_code >>

\* The MRO merge and the return of fetch_ecb_rates.
Merge ==
    /\ pc = "merge"
    /\ combined_rates' = MergeMRO(combined_rates)
    /\ pc' = "plot"
    /\ UNCHANGED << output_path, dirs, k, requests, failed, rates_data, traces,
                    rates_info, artifact, writes, returned, error, exit_code >>

\* The call create_interactive_plot(rates, output_path=args.output) and its
\* body up to html_content: the traces, then the summary, which starts with
\* rates_df.iloc[-1].
Plot ==
    /\ pc = "plot"
    /\ output_path' \in OutputPaths
    /\ traces' = Traces(combined_rates)
    /\ IF HasRows(combined_rates)
       THEN /\ rates_info' = RatesInfo(combined_rates)
            /\ error' = error
            /\ pc' = "makedirs"
       ELSE /\ rates_info' = rates_info
            /\ error' = "IndexError"
            /\ pc' = "return"
    /\ UNCHANGED << dirs, k, requests, failed, rates_data,
                    combined_rates, artifact, writes, returned, exit_code >>

\* os.makedirs(os.path.dirname(output_path), exist_ok=True).  makedirs('')
\* raises FileNotFoundError; creating a missing directory needs permission.
MakeDirs ==
    /\ pc = "makedirs"
    /\ LET d == Dirname(output_path)
       IN \E permitted \in BOOLEAN :
            IF d = << >>
            THEN /\ error' = "FileNotFoundError"
                 /\ dirs' = dirs
                 /\ pc' = "return"
            ELSE IF DirsOf(d) \subseteq dirs \/ permitted
            THEN /\ error' = error
                 /\ dirs' = dirs \cup DirsOf(d)
                 /\ pc' = "write"
            ELSE /\ error' = "PermissionError"
                 /\ dirs' = dirs
                 /\ pc' = "return"
    /\ UNCHANGED << output_path, k, requests, failed, rates_data, combined_rates,
                    traces, rates_info, artifact, writes, returned, exit_code >>

\* with open(output_path, 'w') as f: f.write(html_content); return output_path.
\* open fails when the parent directory is missing or the location is not
\* writable.
WriteFile ==
    /\ pc = "write"
    /\ \E permitted \in BOOLEAN :
         IF ~ (DirsOf(Dirname(output_path)) \subseteq dirs)
         THEN /\ error' = "FileNotFoundError"
              /\ UNCHANGED << artifact, writes, returned >>
         ELSE IF permitted
         THEN /\ artifact' = << [info |-> rates_info, fig |-> traces] >>
              /\ writes' = writes + 1
              /\ returned' = << output_path >>
              /\ error' = error
         ELSE /\ error' = "PermissionError"
              /\ UNCHANGED << artifact, writes, returned >>
    /\ pc' = "return"
    /\ UNCHANGED << output_path, dirs, k, requests, failed, rates_data,
                    combined_rates, traces, rates_info, exit_code >>

\* The end of main's try statement: return 1 from the except branch, else 0.
MainReturn ==
    /\ pc = "return"
    /\ exit_code' = << ExitCode(error) >>
    /\ pc' = "done"
    /\ UNCHANGED << output_path, dirs, k, requests, failed, rates_data,
                    combined_rates, traces, rates_info, artifact, writes,
                    returned, error >>

Next ==
    \/ FetchSeries
    \/ Combine
    \/ Merge
    \/ Plot
    \/ MakeDirs
    \/ WriteFile
    \/ MainReturn

Spec == Init /\ [][Next]_vars

\* --------------------------------------------------------------- properties
FetchDone == pc # "fetch"

\* fetch_ecb_rates has just returned: combined_rates is the returned table
\* (no later step assigns it).
TableReturned == pc = "plot"

\* Any position after the return of fetch_ecb_rates.
AfterFetch == pc \in {"plot", "makedirs", "write", "return", "done"}

\* create_interactive_plot got past rates_df.iloc[-1].
SummaryBuilt == pc \in {"makedirs", "write"} \/ (pc \in {"return", "done"} /\ error # "IndexError")

Columns == Range(combined_rates.columns)

MROSubSeries == { "MRO (Fixed Rate)", "MRO (Variable Rate)" }

\* The cell of a fetched series at a date, NaN where it has no observation.
Observed(name, d) ==
    IF name \in DOMAIN rates_data /\ d \in DOMAIN rates_data[name]
    THEN rates_data[name][d]
    ELSE NaN

\* C1: in one run every configured series is requested exactly once, in
\* order, whatever failed before (never skipped, never retried), and the
\* columns of the table before the MRO merge are exactly the series whose
\* fetch did not fail.
C1_EachSeriesRequestedOnce ==
    /\ \A j \in 1..Len(SERIES_KEYS) :
         requests[SERIES_KEYS[j]] = IF pc = "fetch" /\ j >= k THEN 0 ELSE 1
    /\ pc = "merge" =>
         /\ Columns = RateNames \ failed
         /\ DOMAIN combined_rates.data = RateNames \ failed
         /\ Len(combined_rates.columns) = Cardinality(RateNames \ failed)

\* C1 witness: a run in which the first series failed, a later one was
\* fetched and another later one failed, at the table before the merge.
C1_Witness ==
    /\ pc = "merge"
    /\ failed = { "MRO (Fixed Rate)", "MLF" }
    /\ Columns = { "MRO (Variable Rate)", "DFR", "EONIA", "ESTR" }

\* C2 as stated: if only the DFR fetch fails, the table returned by
\* fetch_ecb_rates has exactly five columns, none of them DFR, the artifact
\* is written and main returns 0.
C2_FiveColumnsAndExitZero ==
    (pc = "done" /\ failed = {"DFR"}) =>
        /\ Len(combined_rates.columns) = 5
        /\ "DFR" \notin Columns
        /\ writes = 1
        /\ exit_code = << 0 >>

\* C2 amended: if only the DFR fetch fails, the returned table has exactly
\* the four columns MLF, EONIA, ESTR and MRO (the two fetched MRO sub-series
\* are merged into one), fetch_ecb_rates raises nothing, and main returns 0
\* with the artifact written once exactly when create_interactive_plot
\* raises nothing; it raises only on a table without rows, on an output
\* path without a directory component, or when the location is not writable.
C2_FourColumnsAndNoFetchError ==
    (FetchDone /\ failed = {"DFR"}) =>
        /\ pc \in {"combine", "merge", "plot"} => error = "none"
        /\ AfterFetch =>
             /\ combined_rates.columns = << "MLF", "EONIA", "ESTR", "MRO" >>
             /\ DOMAIN combined_rates.data = { "MLF", "EONIA", "ESTR", "MRO" }
        /\ error = "IndexError" => ~ HasRows(combined_rates)
        /\ error = "FileNotFoundError" => Dirname(output_path) = << >>
        /\ error \in {"none", "IndexError", "FileNotFoundError", "PermissionError"}
        /\ pc = "done" =>
             /\ (exit_code = << 0 >> /\ writes = 1 /\ returned = << output_path >>)
                  <=> error = "none"
             /\ ( /\ HasRows(combined_rates)
                  /\ Dirname(output_path) # << >>
                  /\ error # "PermissionError" ) => exit_code = << 0 >>

\* C2 witness: only DFR failed, and the run ended with the artifact written
\* and exit code 0.
C2_Witness ==
    /\ pc = "done"
    /\ failed = {"DFR"}
    /\ Len(combined_rates.columns) = 4
    /\ writes = 1
    /\ exit_code = << 0 >>

\* C3 as stated: whatever was fetched, the returned table has exactly one
\* column representing MRO and never both sub-columns.
C3_ExactlyOneMROColumn ==
    TableReturned =>
        /\ Cardinality(Columns \cap (MROSubSeries \cup {"MRO"})) = 1
        /\ ~ (MROSubSeries \subseteq Columns)

\* C3 amended: the returned table never holds both sub-columns and has at
\* most one column representing MRO: the column MRO when both sub-series
\* were fetched, the single fetched sub-series when exactly one was, and
\* none when neither was.
C3_AtMostOneMROColumn ==
    TableReturned =>
        /\ ~ (MROSubSeries \subseteq Columns)
        /\ Cardinality(Columns \cap (MROSubSeries \cup {"MRO"})) <= 1
        /\ Columns \cap (MROSubSeries \cup {"MRO"}) =
             IF MROSubSeries \cap failed = {} THEN {"MRO"} ELSE MROSubSeries \ failed
        /\ Len(combined_rates.columns) = Cardinality(Columns)

\* C3 witness: both sub-series were fetched and the returned table holds MRO
\* and neither of them.
C3_Witness ==
    /\ pc = "plot"
    /\ MROSubSeries \cap failed = {}
    /\ "MRO" \in Columns
    /\ HasRows(combined_rates)

\* C4: when both MRO sub-series were fetched, at every date of the table MRO
\* is the arithmetic mean of the sub-series values that are not missing at
\* that date (the one available value when one is missing, missing when both
\* are), and neither sub-column remains.
C4_MROIsMeanOfAvailable ==
    (TableReturned /\ MROSubSeries \cap failed = {}) =>
        /\ "MRO" \in Columns
        /\ Columns \cap MROSubSeries = {}
        /\ (DOMAIN combined_rates.data) \cap MROSubSeries = {}
        /\ \A d \in Range(combined_rates.index) :
             LET f == Observed("MRO (Fixed Rate)", d)
                 v == Observed("MRO (Variable Rate)", d)
                 m == combined_rates.data["MRO"][d]
             IN /\ (f = NaN /\ v = NaN) => m = NaN
                /\ (f # NaN /\ v = NaN) => m = f
                /\ (f = NaN /\ v # NaN) => m = v
                /\ (f # NaN /\ v # NaN) => (m # NaN /\ 2 * m[1] = f[1] + v[1])

\* C4 witness: 4.50 and 4.75 at one date gave MRO 4.625 (36, 38 and 37
\* eighths).
C4_Witness ==
    /\ TableReturned
    /\ MROSubSeries \cap failed = {}
    /\ \E d \in Range(combined_rates.index) :
         /\ Observed("MRO (Fixed Rate)", d) = << 36 >>
         /\ Observed("MRO (Variable Rate)", d) = << 38 >>
         /\ "MRO" \in Columns
         /\ combined_rates.data["MRO"][d] = << 37 >>

\* C5: the dates of the table are exactly the union of the dates of the
\* fetched series, in increasing order, and each fetched column holds the
\* series' value at a date, or NaN (never zero) where the series has no
\* observation.
C5_OuterJoinOnDates ==
    (pc = "merge" \/ TableReturned) =>
        /\ Range(combined_rates.index) = UNION { DOMAIN rates_data[n] : n \in DOMAIN rates_data }
        /\ \A i, j \in 1..Len(combined_rates.index) :
             i < j => combined_rates.index[i] < combined_rates.index[j]
        /\ \A n \in Columns \cap DOMAIN rates_data :
             /\ DOMAIN combined_rates.data[n] = Range(combined_rates.index)
             /\ \A d \in Range(combined_rates.index) :
                  /\ combined_rates.data[n][d] = Observed(n, d)
                  /\ d \notin DOMAIN rates_data[n] =>
                       (combined_rates.data[n][d] = NaN /\ combined_rates.data[n][d] # << 0 >>)

\* C5 witness: two series observed on different dates; the table has both
\* dates and each column is missing at the other's date.
C5_Witness ==
    /\ TableReturned
    /\ Len(combined_rates.index) = 2
    /\ {"DFR", "MLF"} \subseteq Columns
    /\ DOMAIN rates_data["DFR"] = {1}
    /\ DOMAIN rates_data["MLF"] = {2}
    /\ combined_rates.data["DFR"][2] = NaN
    /\ combined_rates.data["MLF"][1] = NaN
    /\ combined_rates.data["DFR"][1] # NaN

\* The greatest date of the table at which a column is not NaN.
LastObserved(name) ==
    CHOOSE d \in Range(combined_rates.index) :
        /\ notna(combined_rates.data[name][d])
        /\ \A e \in Range(combined_rates.index) :
             notna(combined_rates.data[name][e]) => e <= d

\* C6 as stated: every policy rate that is a column with at least one
\* non-missing value is listed in the summary with its latest non-missing
\* value, also when the last row of the table is missing for that rate.
C6_SummaryListsLatestNonMissing ==
    SummaryBuilt =>
        \A r \in Range(policy_rates) :
            ( /\ r \in Columns
              /\ \E d \in Range(combined_rates.index) : notna(combined_rates.data[r][d]) )
            => \E j \in 1..Len(rates_info) :
                 /\ rates_info[j].name = r
                 /\ rates_info[j].value = 125 * combined_rates.data[r][LastObserved(r)][1]

\* C7 as stated: for every table fetch_ecb_rates produces, whichever series
\* were fetched (none at all included), create_interactive_plot does not
\* raise on account of the table, and the chart has a trace for exactly
\* those of MRO, DFR, MLF, ESTR, EONIA that are columns.  Stated for the runs
\* in which every fetched series has an observation, where the table is
\* without rows only if all six fetches failed.
C7_RenderAcceptsEveryTable ==
    ( /\ pc \in {"makedirs", "write", "return", "done"}
      /\ \A n \in DOMAIN rates_data : rates_data[n] # << >> ) =>
        /\ error # "IndexError"
        /\ Range(traces) = Columns \cap (Range(policy_rates) \cup Range(reference_rates))

\* C8: main returns 1 exactly when the fetch-and-render sequence raised (in
\* particular when makedirs or the write failed) and 0 otherwise; when it
\* returns 0 the artifact has been written exactly once, and a write only
\* ever happens after all six requests.
C8_ExitCodeAndSingleWrite ==
    /\ writes <= 1
    /\ writes = 1 =>
         /\ \A n \in RateNames : requests[n] = 1
         /\ artifact # << >>
         /\ pc \in {"return", "done"}
    /\ error # "none" => pc \in {"return", "done"}
    /\ pc # "done" => exit_code = << >>
    /\ pc = "done" =>
         /\ exit_code \in { << 0 >>, << 1 >> }
         /\ exit_code = << 1 >> <=> error # "none"
         /\ exit_code = << 0 >> => (writes = 1 /\ \A n \in RateNames : requests[n] = 1)
         /\ exit_code = << 1 >> => (writes = 0 /\ artifact = << >>)

\* C8 witness: the write failed and main returned 1 without an artifact.
C8_Witness ==
    /\ pc = "done"
    /\ error = "PermissionError"
    /\ DirsOf(Dirname(output_path)) \subseteq dirs
    /\ Dirname(output_path) # << >>
    /\ exit_code = << 1 >>
    /\ writes = 0

\* C9 as stated: for every output path, with or without a directory
\* component, a call on a writable location creates the missing parent
\* directory, writes the file and returns the written path.
C9_WritesForEveryOutputPath ==
    (pc = "done" /\ HasRows(combined_rates) /\ error # "PermissionError") =>
        /\ DirsOf(Dirname(output_path)) \subseteq dirs
        /\ writes = 1
        /\ returned = << output_path >>

\* C10: if not both MRO sub-series were fetched there is no MRO column; a
\* single fetched sub-series stays in the table under its own name with its
\* own values, and neither the chart nor the summary has an MRO entry.
C10_NoMROUnlessBothFetched ==
    (AfterFetch /\ MROSubSeries \cap failed # {}) =>
        /\ TableReturned =>
             /\ "MRO" \notin Columns
             /\ "MRO" \notin DOMAIN combined_rates.data
             /\ \A n \in MROSubSeries \ failed :
                  /\ n \in Columns
                  /\ \A d \in Range(combined_rates.index) :
                       combined_rates.data[n][d] = Observed(n, d)
        /\ "MRO" \notin Range(traces)
        /\ \A j \in 1..Len(rates_info) : rates_info[j].name # "MRO"
        /\ artifact # << >> =>
             /\ "MRO" \notin Range(artifact[1].fig)
             /\ \A j \in 1..Len(artifact[1].info) : artifact[1].info[j].name # "MRO"

\* C10 witness: only the fixed-rate sub-series was fetched, with a value;
\* the artifact was written and shows no MRO.
C10_Witness ==
    /\ pc = "done"
    /\ MROSubSeries \cap failed = { "MRO (Variable Rate)" }
    /\ "MRO (Fixed Rate)" \in Columns
    /\ \E d \in Range(combined_rates.index) :
         notna(combined_rates.data["MRO (Fixed Rate)"][d])
    /\ writes = 1
    /\ "MRO" \notin Range(artifact[1].fig)

====
